---- MODULE Spec2Model ----
(***************************************************************************)
(* Session isolation and response routing core of the Gmail MCP server:    *)
(* the AsyncLocalStorage context carrier, the SessionAwareTransportManager *)
(* registry (getOrCreateSession, remove, idle sweep), the                  *)
(* SessionAwareStreamableTransport.send re-binding, and the dispatcher     *)
(* that runs one inbound message under its own request context.            *)
(***************************************************************************)
EXTENDS Integers, FiniteSets, Sequences, TLC

\* ---------------------------------------------------------------- bounds
MaxTasks == 2       \* inbound messages (one logical task per message)
MaxObj == 6         \* object identities the allocator hands out
MaxTime == 2        \* clock ticks (hours) the model lets pass
MaxDepth == 2       \* scopes open inside handlers' own at one time

\* Automatic session cleanup after 1 hour of inactivity.
IdleThresholdHours == 1

SessionIds == {"A", "B"}
Tasks == 1..MaxTasks
Objs == 1..MaxObj
RootChain == 0     \* the chain that runs outside every scope
Chains == {RootChain} \cup Tasks
Times == 0..MaxTime

\* ------------------------------------------------------------- constants
NoContext == [sessionId |-> "none", conn |-> 0]
NoSeen == [sessionId |-> "unset", conn |-> 0]
NoWrite == [adapter |-> 0, dest |-> 0, kind |-> "none"]
NoRecord == [server |-> 0, transport |-> 0]
NoEntry == [server |-> 0, transport |-> 0, auth |-> 0, lastUsedAt |-> 0,
            state |-> "ABSENT"]
Dropped == 0 - 1    \* a physical write that reached no connection

VARIABLES
    now,        \* the clock
    nextObj,    \* next object identity `new` hands out
    registry,   \* session id -> entry of the manager's session map
    pending,    \* creations awaiting mcpServer.connect(transport)
    evicting,   \* records removed from the map, teardown still owed
    destroyed,  \* torn-down objects (servers and transports)
    pc,         \* task -> position in the dispatcher
    sid,        \* task -> session id of its message
    rec,        \* task -> record getOrCreate returned to it
    err,        \* task -> SessionCreationFailure it received (0: none)
    store,      \* async chain -> stack of AsyncLocalStorage.run scopes
    seen,       \* task -> the handler's local `store`: what getStore() returned
    resp,       \* task -> write of its response (adapter, destination)
    deferred,   \* task -> write of its deferred outbound message
    nest,       \* task -> contexts of the scopes its handler has opened itself
    ret         \* what the last remove(id) call returned

vars == <<now, nextObj, registry, pending, evicting, destroyed, pc, sid, rec,
          err, store, seen, resp, deferred, nest, ret>>

regVars == <<registry, pending, evicting, destroyed>>
taskVars == <<pc, sid, rec, err, store, seen, resp, deferred, nest>>

\* ------------------------------------------------------- context carrier
\* The connection handle of a message is the HTTP response object it came
\* in with (req, res of getOrCreateSession): one per inbound message.
ConnOf(t) == t

\* initialContext of one inbound message.
Ctx(t) == [sessionId |-> sid[t], conn |-> ConnOf(t)]

\* A run that overwrites the one slot of the chain and saves nothing.
runEnterFlat(chain, ctx) == [store EXCEPT ![chain] = <<ctx>>]

\* A process-wide slot instead of per-chain storage.
getStoreShared(chain) ==
    LET open == {u \in Chains : store[u] # <<>>}
    IN  IF open = {} THEN NoContext
        ELSE LET u == CHOOSE v \in open : \A w \in open : v >= w
             IN  store[u][Len(store[u])]

\* asyncLocalStorage.getStore(): the innermost scope of the calling chain.
getStore(chain) ==
    IF store[chain] = <<>> THEN NoContext
    ELSE store[chain][Len(store[chain])]

\* asyncLocalStorage.run(ctx, fn): enter a scope on the calling chain.
runEnter(chain, ctx) == [store EXCEPT ![chain] = Append(@, ctx)]

\* ... and leave it when fn has returned.
runExit(chain) ==
    [store EXCEPT ![chain] = SubSeq(@, 1, Len(@) - 1)]

\* -------------------------------------------------- routing transport adapter
\* super.send(message): the physical write goes to the connection the
\* active context identifies; without one, or on a torn-down adapter, the
\* message is dropped (RoutingFailure).
superSend(adapter, active) ==
    IF adapter \in destroyed \/ active = NoContext THEN Dropped
    ELSE active.conn

\* A transport that writes to the connection of the latest request the
\* process has taken in, whoever the message is for.
sendLatest(adapter, chain, origin) ==
    LET arrived == {u \in Tasks : pc[u] # "idle"}
    IN  superSend(adapter, Ctx(CHOOSE u \in arrived : \A w \in arrived : u >= w))

\* SessionAwareStreamableTransport.send(message) called on `chain` for a
\* message of request `origin`: currentContext = getStore(), then
\* run(currentContext, () => super.send(message)).
send(adapter, chain, origin) ==
    LET currentContext == getStore(chain)
        inner == Append(store[chain], currentContext)
    IN  superSend(adapter, inner[Len(inner)])

\* ------------------------------------------------------- session registry
RecOf(e) == [server |-> e.server, transport |-> e.transport]

\* A factory that takes its server and transport from a pool of the ones
\* torn down before.
FactoryPooled(id) ==
    IF destroyed # {}
    THEN LET o == CHOOSE x \in destroyed : \A y \in destroyed : x <= y
         IN  [id |-> id, server |-> o, transport |-> o + 1]
    ELSE [id |-> id, server |-> nextObj, transport |-> nextObj + 1]

\* A factory that wires every session to one process-wide server.
FactoryShared(id) == [id |-> id, server |-> 1, transport |-> 2]

\* The creation factory: new Server(config, capabilities) with all handlers
\* registered, new SessionAwareStreamableTransport(sessionId, ...).
Factory(id) == [id |-> id, server |-> nextObj, transport |-> nextObj + 1]

\* A lookup that reads the map only and never sees a creation under way.
LookupReadThenWrite(id) ==
    IF registry[id] # NoEntry THEN "hit" ELSE "create"

\* getOrCreate's atomic check: the record, a creation under way, or none.
Lookup(id) ==
    IF registry[id] # NoEntry THEN "hit"
    ELSE IF \E p \in pending : p.id = id THEN "join"
    ELSE "create"

\* Only the call that started the creation is settled with it.
WaitersFirstOnly(id) ==
    LET w == {t \in Tasks : pc[t] = "waiting" /\ sid[t] = id}
    IN  {t \in w : \A u \in w : t <= u}

\* The getOrCreate calls that wait for the creation of id to settle.
Waiters(id) == {t \in Tasks : pc[t] = "waiting" /\ sid[t] = id}

\* Removal that tears down whatever the map yields for the ids, present
\* or not.
RemoveAllBlind(ids) ==
    LET gone == {RecOf(registry[id]) : id \in ids}
        free == {r \in gone : \A t \in Tasks :
                    ~(rec[t] = r /\ pc[t] \in {"got", "handling", "sending"})}
    IN  /\ registry' = [id \in SessionIds |->
                          IF id \in ids THEN NoEntry ELSE registry[id]]
        /\ destroyed' = destroyed \cup UNION {{r.server, r.transport} : r \in free}
        /\ evicting' = evicting \cup (gone \ free)

\* An in-flight count that starts only when the handler has started.
InFlightHandlingOnly(r) == {t \in Tasks : rec[t] = r /\ pc[t] = "handling"}

\* Dispatches that hold record r: getOrCreate returned it, handle not over.
InFlight(r) == {t \in Tasks : rec[t] = r /\ pc[t] \in {"got", "handling", "sending"}}

Present(ids) == {id \in ids : registry[id] # NoEntry}

\* Objects of the records in rs.
ObjsOf(rs) == UNION {{r.server, r.transport} : r \in rs}

\* Removal of the ids: out of the map first; torn down at once when no
\* dispatch holds the record, else when the last one has finished.
RemoveAll(ids) ==
    LET gone == {RecOf(registry[id]) : id \in Present(ids)}
        free == {r \in gone : InFlight(r) = {}}
    IN  /\ registry' = [id \in SessionIds |->
                          IF id \in ids THEN NoEntry ELSE registry[id]]
        /\ destroyed' = destroyed \cup ObjsOf(free)
        /\ evicting' = evicting \cup (gone \ free)

\* The dispatch of t is over: tear its record down if that was owed and t
\* was the last to hold it.
Release(t) ==
    IF rec[t] \in evicting /\ InFlight(rec[t]) \ {t} = {}
    THEN /\ evicting' = evicting \ {rec[t]}
         /\ destroyed' = destroyed \cup ObjsOf({rec[t]})
    ELSE UNCHANGED <<evicting, destroyed>>

\* touch(id): lastUsedAt := now; no-op if the id is absent.
touch(id) ==
    IF registry[id] = NoEntry THEN registry
    ELSE [registry EXCEPT ![id].lastUsedAt = now]

\* list(): a snapshot of (id, lastUsedAt, state), no references.
list(reg) ==
    {[id |-> id, lastUsedAt |-> reg[id].lastUsedAt, state |-> reg[id].state] :
        id \in {i \in SessionIds : reg[i] # NoEntry}}

\* A threshold test that is off by one: idle for the threshold or longer.
IdleAtLeast(e) == now - e.lastUsedAt >= IdleThresholdHours

\* An entry past the idle threshold at the tick.
Idle(e) == now - e.lastUsedAt > IdleThresholdHours

\* ----------------------------------------------------------------- Init
Init ==
    /\ now = 0
    /\ nextObj = 1
    /\ registry = [id \in SessionIds |-> NoEntry]
    /\ pending = {}
    /\ evicting = {}
    /\ destroyed = {}
    /\ pc = [t \in Tasks |-> "idle"]
    /\ sid = [t \in Tasks |-> "none"]
    /\ rec = [t \in Tasks |-> NoRecord]
    /\ err = [t \in Tasks |-> 0]
    /\ store = [c \in Chains |-> <<>>]
    /\ seen = [t \in Tasks |-> NoSeen]
    /\ resp = [t \in Tasks |-> NoWrite]
    /\ deferred = [t \in Tasks |-> NoWrite]
    /\ nest = [t \in Tasks |-> <<>>]
    /\ ret = "unset"

\* ------------------------------------------------------------ dispatcher
\* An inbound message of session id arrives as task t; the dispatcher calls
\* getOrCreate(id, factory).  Messages are numbered in arrival order.
Dispatch(t, id) ==
    /\ pc[t] = "idle"
    /\ \A u \in Tasks : u < t => pc[u] # "idle"
    /\ sid' = [sid EXCEPT ![t] = id]
    /\ \/ /\ Lookup(id) = "hit"
          /\ rec' = [rec EXCEPT ![t] = RecOf(registry[id])]
          /\ pc' = [pc EXCEPT ![t] = "got"]
          /\ UNCHANGED <<pending, nextObj>>
       \/ /\ Lookup(id) = "join"
          /\ pc' = [pc EXCEPT ![t] = "waiting"]
          /\ UNCHANGED <<rec, pending, nextObj>>
       \/ /\ Lookup(id) = "create"
          /\ nextObj + 1 <= MaxObj
          /\ pending' = pending \cup {Factory(id)}
          /\ nextObj' = nextObj + 2
          /\ pc' = [pc EXCEPT ![t] = "waiting"]
          /\ UNCHANGED rec
    /\ UNCHANGED <<now, registry, evicting, destroyed, err, store,
                   seen, resp, deferred, nest, ret>>

\* await mcpServer.connect(transport) resolves: the record is inserted and
\* every call waiting for this id returns it.
FactoryConnect(p) ==
    /\ p \in pending
    /\ pending' = pending \ {p}
    /\ registry' = [registry EXCEPT ![p.id] =
                      [server |-> p.server, transport |-> p.transport,
                       auth |-> 0, lastUsedAt |-> now,
                       state |-> "PENDING_AUTH"]]
    /\ rec' = [t \in Tasks |->
                 IF t \in Waiters(p.id) THEN RecOf(p)
                 ELSE rec[t]]
    /\ pc' = [t \in Tasks |->
                IF t \in Waiters(p.id) THEN "got" ELSE pc[t]]
    /\ UNCHANGED <<now, nextObj, evicting, destroyed, nest, sid,
                   err, store, seen, resp, deferred, ret>>

\* The factory fails: nothing is inserted and every call waiting for this
\* id receives the one SessionCreationFailure.
FactoryFail(p) ==
    /\ p \in pending
    /\ pending' = pending \ {p}
    /\ err' = [t \in Tasks |->
                 IF t \in Waiters(p.id) THEN p.server
                 ELSE err[t]]
    /\ pc' = [t \in Tasks |->
                IF t \in Waiters(p.id) THEN "createFailed"
                ELSE pc[t]]
    /\ UNCHANGED <<now, nextObj, registry, evicting, destroyed, nest, sid,
                   rec, store, seen, resp, deferred, ret>>

\* getOrCreate has returned: touch(id), build the request context and open
\* its scope; the handler starts.
Enter(t) ==
    /\ pc[t] = "got"
    /\ registry' = touch(sid[t])
    /\ store' = runEnter(t, Ctx(t))
    /\ pc' = [pc EXCEPT ![t] = "handling"]
    /\ UNCHANGED <<now, nextObj, pending, evicting,
                   destroyed, nest, sid, rec, err, seen, resp, deferred, ret>>

\* A continuation of the handler, after a suspension point, reads the
\* context: const store = asyncLocalStorage.getStore().
HandlerStep(t) ==
    /\ pc[t] = "handling"
    /\ seen' = [seen EXCEPT ![t] = getStore(t)]
    /\ UNCHANGED <<now, nextObj, regVars, pc, nest, sid, rec, err, store, resp,
                   deferred, ret>>

\* The handler returns: its response goes out through the session's adapter
\* from inside the scope, then the scope is left and the record released.
HandlerComplete(t) ==
    /\ pc[t] = "handling"
    /\ nest[t] = <<>>
    /\ resp' = [resp EXCEPT ![t] =
                  [adapter |-> rec[t].transport,
                   dest |-> send(rec[t].transport, t, t), kind |-> "result"]]
    /\ store' = runExit(t)
    /\ pc' = [pc EXCEPT ![t] = "done"]
    /\ seen' = [seen EXCEPT ![t] = NoSeen]
    /\ Release(t)
    /\ UNCHANGED <<now, nextObj, registry, pending, nest, sid, rec,
                   err, deferred, ret>>

\* The handler raises: the scope is left, the dispatcher catches at its
\* boundary and sends a structured error through the session's adapter.
HandlerFail(t) ==
    /\ pc[t] = "handling"
    /\ nest[t] = <<>>
    /\ store' = runExit(t)
    /\ resp' = [resp EXCEPT ![t] =
                  [adapter |-> rec[t].transport,
                   dest |-> send(rec[t].transport, RootChain, t),
                   kind |-> "error"]]
    /\ pc' = [pc EXCEPT ![t] = "failed"]
    /\ seen' = [seen EXCEPT ![t] = NoSeen]
    /\ Release(t)
    /\ UNCHANGED <<now, nextObj, registry, pending, nest, sid, rec,
                   err, deferred, ret>>

\* After the scope of t has returned, a callback running on chain `via`
\* (the root, or the chain of a request being handled) sends one more
\* message of t's request through t's adapter.
DeferredSend(t, via) ==
    /\ pc[t] = "done"
    /\ deferred[t] = NoWrite
    /\ IF via = RootChain THEN TRUE ELSE via # t /\ pc[via] = "handling"
    /\ deferred' = [deferred EXCEPT ![t] =
                      [adapter |-> rec[t].transport,
                       dest |-> send(rec[t].transport, via, t),
                       kind |-> "deferred"]]
    /\ UNCHANGED <<now, nextObj, regVars, pc, nest, sid, rec, err, store, seen,
                   resp, ret>>

\* ------------------------------------------------- removal and the sweeper
\* remove(id), also the operator's manual eviction: whether a record was
\* removed.
Remove(id) ==
    /\ ret' = IF registry[id] # NoEntry THEN "true" ELSE "false"
    /\ RemoveAll({id})
    /\ UNCHANGED <<now, nextObj, pending, taskVars>>

\* One sweep tick: every entry idle for longer than the threshold is marked
\* EVICTING and removed.
SweepTick ==
    LET victims == {id \in SessionIds :
                      /\ registry[id] # NoEntry
                      /\ Idle(registry[id])
                      /\ registry[id].state # "EVICTING"}
    IN  /\ RemoveAll(victims)
        /\ UNCHANGED <<now, nextObj, pending, taskVars, ret>>

\* The clock advances.
AdvanceTime ==
    /\ now < MaxTime
    /\ now' = now + 1
    /\ UNCHANGED <<nextObj, regVars, taskVars, ret>>

\* The authorization collaborator completes for a session: the record
\* stores the handle it returns, PENDING_AUTH -> ACTIVE.
CompleteAuth(id) ==
    /\ registry[id] # NoEntry
    /\ registry[id].auth = 0
    /\ nextObj <= MaxObj
    /\ registry' = [registry EXCEPT ![id].auth = nextObj,
                                    ![id].state = "ACTIVE"]
    /\ nextObj' = nextObj + 1
    /\ UNCHANGED <<now, pending, evicting, destroyed,
                   taskVars, ret>>

Next ==
    \/ \E t \in Tasks, id \in SessionIds : Dispatch(t, id)
    \/ \E p \in pending : FactoryConnect(p)
    \/ \E p \in pending : FactoryFail(p)
    \/ \E t \in Tasks : Enter(t)
    \/ \E t \in Tasks : HandlerStep(t)
    \/ \E t \in Tasks : HandlerComplete(t)
    \/ \E t \in Tasks : HandlerFail(t)
    \/ \E t \in Tasks, via \in Chains : DeferredSend(t, via)
    \/ \E id \in SessionIds : Remove(id)

Spec == Init /\ [][Next]_vars

\* The registry with the authorization collaborator: creation, removal and
\* the handles the sessions are given.
NextAuth ==
    \/ \E t \in Tasks, id \in SessionIds : Dispatch(t, id)
    \/ \E p \in pending : FactoryConnect(p)
    \/ \E p \in pending : FactoryFail(p)
    \/ \E t \in Tasks : Enter(t)
    \/ \E t \in Tasks : HandlerComplete(t)
    \/ \E id \in SessionIds : Remove(id)
    \/ \E id \in SessionIds : CompleteAuth(id)

SpecAuth == Init /\ [][NextAuth]_vars

\* The registry under the clock: dispatches, removal and the idle sweep.
NextSweep ==
    \/ \E t \in Tasks, id \in SessionIds : Dispatch(t, id)
    \/ \E p \in pending : FactoryConnect(p)
    \/ \E t \in Tasks : Enter(t)
    \/ \E t \in Tasks : HandlerComplete(t)
    \/ \E id \in SessionIds : Remove(id)
    \/ SweepTick
    \/ AdvanceTime

SpecSweep == Init /\ [][NextSweep]_vars

\* ------------------------------------------- the write as it takes time
\* The handler returns and its response is handed to the adapter: send()
\* re-binds getStore() and calls super.send(message), which starts the
\* physical write and suspends (await super.send) until it is through.
\* Nothing in send() waits for an earlier write of the same adapter.
HandlerSend(t) ==
    /\ pc[t] = "handling"
    /\ nest[t] = <<>>
    /\ resp' = [resp EXCEPT ![t] =
                  [adapter |-> rec[t].transport,
                   dest |-> send(rec[t].transport, t, t), kind |-> "result"]]
    /\ pc' = [pc EXCEPT ![t] = "sending"]
    /\ UNCHANGED <<now, nextObj, regVars, nest, sid, rec, err, store, seen,
                   deferred, ret>>

\* The promise of super.send resolves: the write is through, the scope is
\* left and the record released.
WriteDone(t) ==
    /\ pc[t] = "sending"
    /\ store' = runExit(t)
    /\ pc' = [pc EXCEPT ![t] = "done"]
    /\ seen' = [seen EXCEPT ![t] = NoSeen]
    /\ Release(t)
    /\ UNCHANGED <<now, nextObj, registry, pending, nest, sid, rec, err, resp,
                   deferred, ret>>

\* Dispatches whose responses are written by writes that take time.
NextWrites ==
    \/ \E t \in Tasks, id \in SessionIds : Dispatch(t, id)
    \/ \E p \in pending : FactoryConnect(p)
    \/ \E t \in Tasks : Enter(t)
    \/ \E t \in Tasks : HandlerStep(t)
    \/ \E t \in Tasks : HandlerSend(t)
    \/ \E t \in Tasks : WriteDone(t)
    \/ \E id \in SessionIds : Remove(id)

SpecWrites == Init /\ [][NextWrites]_vars

\* ------------------------------------------------------- nested scopes
RECURSIVE OpenScopes(_)
OpenScopes(ts) ==
    IF ts = {} THEN 0
    ELSE LET t == CHOOSE x \in ts : TRUE
         IN  Len(nest[t]) + OpenScopes(ts \ {t})

\* The handler of t opens a scope of its own, run(ctx2, g), with the
\* context of a request the process has taken in.
NestEnter(t, u) ==
    /\ pc[t] = "handling"
    /\ pc[u] # "idle"
    /\ OpenScopes(Tasks) < MaxDepth
    /\ store' = runEnter(t, Ctx(u))
    /\ nest' = [nest EXCEPT ![t] = Append(@, Ctx(u))]
    /\ UNCHANGED <<now, nextObj, regVars, pc, sid, rec, err, seen, resp,
                   deferred, ret>>

\* g returns: the innermost scope the handler opened is left.
NestExit(t) ==
    /\ pc[t] = "handling"
    /\ nest[t] # <<>>
    /\ store' = runExit(t)
    /\ nest' = [nest EXCEPT ![t] = SubSeq(@, 1, Len(@) - 1)]
    /\ UNCHANGED <<now, nextObj, regVars, pc, sid, rec, err, seen, resp,
                   deferred, ret>>

\* Dispatches whose handlers open scopes of their own.
NextNest ==
    \/ \E t \in Tasks, id \in SessionIds : Dispatch(t, id)
    \/ \E p \in pending : FactoryConnect(p)
    \/ \E t \in Tasks : Enter(t)
    \/ \E t, u \in Tasks : NestEnter(t, u)
    \/ \E t \in Tasks : NestExit(t)
    \/ \E t \in Tasks : HandlerStep(t)
    \/ \E t \in Tasks : HandlerComplete(t)

SpecNest == Init /\ [][NextNest]_vars

\* ------------------------------------------------------------- type check
TypeOK ==
    /\ now \in Times
    /\ nextObj \in 1..(MaxObj + 1)
    /\ \A id \in SessionIds :
         registry[id] = NoEntry \/
           /\ registry[id].server \in Objs
           /\ registry[id].transport \in Objs
           /\ registry[id].state \in {"PENDING_AUTH", "ACTIVE"}
    /\ ret \in {"unset", "true", "false"}
    /\ \A t \in Tasks :
         pc[t] \in {"idle", "waiting", "createFailed", "got", "handling",
                    "sending", "done", "failed"}
    /\ \A t \in Tasks :
         /\ Len(nest[t]) <= MaxDepth
         /\ Len(store[t]) <= MaxDepth + 1

\* ================================================================ claims
Holding(t) == pc[t] \in {"got", "handling", "sending"}

\* C1 (isolation): whatever getStore() returned inside the handler of a
\* message is that message's own context, never the context of another
\* message, whichever way the handlers of concurrently dispatched sessions
\* interleave.
Isolation ==
    \A t \in Tasks :
        seen[t] # NoSeen =>
            /\ seen[t] = Ctx(t)
            /\ \A u \in Tasks \ {t} : seen[t] # Ctx(u)

\* Two sessions are being handled at once and both handlers have read the
\* context.
IsolationWitness ==
    \E t, u \in Tasks :
        /\ sid[t] = "A" /\ sid[u] = "B"
        /\ pc[t] = "handling" /\ pc[u] = "handling"
        /\ seen[t] # NoSeen /\ seen[u] # NoSeen

\* C2 (deferred routing): a message sent through the adapter by a callback
\* that runs after the originating scope has returned is still written to
\* the connection that issued the original request.
DeferredRouting ==
    \A t \in Tasks :
        deferred[t] # NoWrite => deferred[t].dest = ConnOf(t)

\* C3 (no swapped responses): with requests of two sessions in flight and
\* their handlers completing in any order, the response of a completed
\* handler is written to the connection of its own request, and no response
\* is written to the connection of another request.
NoSwappedResponses ==
    \A t \in Tasks :
        resp[t] # NoWrite =>
            /\ \A u \in Tasks \ {t} : resp[t].dest # ConnOf(u)
            /\ resp[t].kind = "result" => resp[t].dest = ConnOf(t)

\* The request of session A arrived first and both handlers have completed,
\* in either order, each response written.
NoSwappedResponsesWitness ==
    \E t, u \in Tasks :
        /\ t < u /\ sid[t] = "A" /\ sid[u] = "B"
        /\ pc[t] = "done" /\ pc[u] = "done"
        /\ resp[t].kind = "result" /\ resp[u].kind = "result"

NoResurrection ==
    LET live == {RecOf(registry[id]) : id \in Present(SessionIds)}
                  \cup {RecOf(p) : p \in pending}
    IN  /\ ObjsOf(live) \cap (destroyed \cup ObjsOf(evicting)) = {}
        /\ \A r \in live : r.server < nextObj /\ r.transport < nextObj

\* A record of the id was removed and torn down, and a later getOrCreate
\* for the same id has returned another record.
NoResurrectionWitness ==
    \E t, u \in Tasks :
        /\ sid[t] = sid[u] /\ t < u
        /\ rec[t].server \in destroyed
        /\ pc[u] = "got"
        /\ rec[u] = RecOf(registry[sid[u]])
        /\ rec[u] # rec[t]

\* C7 (idempotent removal): remove(id) on an absent id returns false and
\* changes nothing; on a present id it returns true and the id is absent
\* afterwards, so a second remove of the same record returns false.
IdempotentRemoval ==
    [][\A id \in SessionIds :
          Remove(id) =>
            IF registry[id] = NoEntry
            THEN /\ ret' = "false"
                 /\ UNCHANGED <<now, nextObj, regVars, taskVars>>
            ELSE /\ ret' = "true"
                 /\ registry'[id] = NoEntry
                 /\ \A other \in SessionIds \ {id} :
                       registry'[other] = registry[other]]_vars

\* A record was removed and torn down, and the last remove returned false.
IdempotentRemovalWitness ==
    /\ ret = "false"
    /\ destroyed # {}
    /\ \A id \in SessionIds : registry[id] = NoEntry

\* C8 (idle eviction): at a sweep tick every session idle for longer than
\* the threshold is absent from list() afterwards, and every session used
\* within the threshold is still listed, unchanged.
IdleEviction ==
    [][SweepTick =>
          \A id \in SessionIds :
              registry[id] # NoEntry =>
                  IF now - registry[id].lastUsedAt > IdleThresholdHours
                  THEN \A e \in list(registry') : e.id # id
                  ELSE [id |-> id,
                        lastUsedAt |-> registry[id].lastUsedAt,
                        state |-> registry[id].state] \in list(registry')]_vars

\* No remove was ever called, yet one session is gone and torn down while
\* another, used within the threshold, is still listed.
IdleEvictionWitness ==
    /\ ret = "unset"
    /\ destroyed # {}
    /\ \E e \in list(registry) : now - e.lastUsedAt <= IdleThresholdHours
    /\ Cardinality(list(registry)) = 1

\* C9 (handler failure containment): when the handler of a message raises,
\* an error response is sent through the adapter of that message's own
\* session, nothing of any other message or of the registry changes,
\* nothing is written to another message's connection, and a handler that
\* completes after a failure elsewhere still has its result written to its
\* own connection.
HandlerFailureContainment ==
    [][\A t \in Tasks :
          /\ (pc[t] = "handling" /\ pc'[t] = "failed")
             => /\ resp'[t].kind = "error"
                /\ resp'[t].adapter = rec[t].transport
                /\ registry' = registry
                /\ \A u \in Tasks \ {t} :
                      /\ resp'[t].dest # ConnOf(u)
                      /\ pc'[u] = pc[u] /\ rec'[u] = rec[u]
                      /\ store'[u] = store[u] /\ seen'[u] = seen[u]
                      /\ resp'[u] = resp[u] /\ deferred'[u] = deferred[u]
          /\ (/\ pc[t] = "handling" /\ pc'[t] = "done"
              /\ \E u \in Tasks : pc[u] = "failed")
             => /\ resp'[t].kind = "result"
                /\ resp'[t].dest = ConnOf(t)]_vars

\* The handler of session A's message has failed and its error was sent,
\* and the message of session B has completed with its result delivered.
HandlerFailureContainmentWitness ==
    \E t, u \in Tasks :
        /\ sid[t] = "A" /\ sid[u] = "B"
        /\ pc[t] = "failed" /\ resp[t].kind = "error"
        /\ pc[u] = "done" /\ resp[u].dest = ConnOf(u)

\* C10 (resource exclusivity): the records in the registry, and the ones
\* being created, are built of pairwise distinct objects: no two sessions
\* share a server, a transport or an auth handle, and no object serves as
\* two resources.
ResourceExclusivity ==
    LET used(e) == {e.server, e.transport} \cup
                     (IF e.auth = 0 THEN {} ELSE {e.auth})
        ids == Present(SessionIds)
    IN  /\ \A a \in ids :
              Cardinality(used(registry[a]))
                = IF registry[a].auth = 0 THEN 2 ELSE 3
        /\ \A a, b \in ids :
              a # b => used(registry[a]) \cap used(registry[b]) = {}
        /\ \A a \in ids, p \in pending :
              used(registry[a]) \cap {p.server, p.transport} = {}
        /\ \A p, q \in pending :
              p # q => {p.server, p.transport} \cap {q.server, q.transport} = {}

\* Two sessions are registered and both have completed authorization.
ResourceExclusivityWitness ==
    /\ registry["A"] # NoEntry /\ registry["B"] # NoEntry
    /\ registry["A"].auth # 0 /\ registry["B"].auth # 0

\* C11 (no lost response): every request dispatched on a live session has,
\* once its dispatch is over (the handler returned or raised), its response
\* written to the connection that produced the request.
NoLostResponse ==
    \A t \in Tasks :
        pc[t] \in {"done", "failed"} =>
            /\ resp[t] # NoWrite
            /\ resp[t].dest = ConnOf(t)

\* The record a task was given has since been removed from the registry.
RemovedRec(t) ==
    /\ rec[t] # NoRecord
    /\ rec[t] \in evicting \/ rec[t].server \in destroyed

InFlightEviction ==
    /\ \A t \in Tasks :
          Holding(t) => ObjsOf({rec[t]}) \cap destroyed = {}
    /\ \A r \in evicting :
          /\ InFlight(r) # {}
          /\ ObjsOf({r}) \cap destroyed = {}
          /\ \A id \in SessionIds : RecOf(registry[id]) # r
    /\ \A t \in Tasks :
          (rec[t] # NoRecord /\ ~Holding(t) /\ InFlight(rec[t]) = {})
          => rec[t] \notin evicting

\* The sweeper, no remove call having been made, has evicted a session
\* while its handler is running: the record is out of the map, not torn
\* down, and teardown is owed.
InFlightEvictionWitness ==
    \E t \in Tasks :
        /\ ret = "unset"
        /\ pc[t] = "handling"
        /\ rec[t] \in evicting
        /\ registry[sid[t]] = NoEntry
        /\ destroyed = {}

\* C14 (per-adapter write ordering): two physical writes of the same
\* session's adapter never overlap: while the write of one send call is
\* under way, no other write of that adapter is.
SerializedWrites ==
    \A t, u \in Tasks :
        (t # u /\ pc[t] = "sending" /\ pc[u] = "sending")
        => rec[t].transport # rec[u].transport

\* C15 (scope nesting and restore): while a handler runs, getStore() on
\* its chain is the context of the innermost scope the handler has opened
\* and not yet left, or the dispatch's own context when it has left them
\* all, at every depth and across the steps of other requests; on a chain
\* that is in no scope, and on the root, it is the empty context.
ScopeNesting ==
    /\ \A t \in Tasks :
          pc[t] = "handling" =>
              getStore(t) = IF nest[t] = <<>> THEN Ctx(t)
                            ELSE nest[t][Len(nest[t])]
    /\ \A t \in Tasks :
          pc[t] \notin {"handling", "sending"} => getStore(t) = NoContext
    /\ getStore(RootChain) = NoContext

\* A handler read another context inside a scope it had opened, has left
\* every scope of its own since, and runs on.
ScopeNestingWitness ==
    \E t \in Tasks :
        /\ pc[t] = "handling"
        /\ nest[t] = <<>>
        /\ seen[t] # NoSeen
        /\ seen[t] # Ctx(t)

====
